---- MODULE Spec2Model ----
(***************************************************************************)
(* State-machine model of GpmControl (src/src/gpm-control.c): the three    *)
(* public operations gpm_control_shutdown, gpm_control_suspend and         *)
(* gpm_control_hibernate, and the singleton life cycle of gpm_control_new. *)
(*                                                                         *)
(* Every library call an operation makes is appended to the per-thread     *)
(* call trace `log` as a triple <<function, argument, result>>, so that    *)
(* ordering and "was it called" properties are state predicates.           *)
(***************************************************************************)
EXTENDS Naturals, Sequences, FiniteSets

VARIABLES
  pc,                 \* per thread: position inside the running operation
  op,                 \* per thread: which public operation is running / ran last
  ret,                \* per thread: local `gboolean ret`
  log,                \* per thread: calls made by the current invocation
  error,              \* per thread: is the caller's GError (*error) set
  proxy,              \* per thread: local `GDBusProxy *proxy`
  prev_nm,            \* per thread: did the previous invocation call gpm_networkmanager_sleep
  logind,             \* environment: what LOGIND_RUNNING() answers now
  settings,           \* environment: the GSettings keys read by the controller
  build,              \* which of WITH_LIBSECRET / WITH_KEYRING are compiled in
  gpm_control_object, \* static gpointer gpm_control_object (0 is NULL)
  refcount,           \* GObject reference count of every instance
  alive,              \* instances allocated and not yet finalized
  holds,              \* per holder: the instance it holds a reference to (0 is none)
  created,            \* number of instances g_object_new has allocated
  last                \* the last life-cycle call and the pointer it returned

thr  == <<pc, op, ret, log, error, proxy, prev_nm>>
env  == <<logind, settings>>
life == <<gpm_control_object, refcount, alive, holds, created, last>>
vars == <<pc, op, ret, log, error, proxy, prev_nm, logind, settings, build,
          gpm_control_object, refcount, alive, holds, created, last>>

----------------------------------------------------------------------------
(* Bounds of the model *)

MaxInstances == 3
NumHolders == 5

Instances == 1..MaxInstances
Holders == 1..NumHolders
Threads == {"t1", "t2"}
MainThread == "t1"

(* Program names *)

LOCK_KEYRING_SUSPEND == "GPM_SETTINGS_LOCK_KEYRING_SUSPEND"
LOCK_KEYRING_HIBERNATE == "GPM_SETTINGS_LOCK_KEYRING_HIBERNATE"
NETWORKMANAGER_SLEEP == "GPM_SETTINGS_NETWORKMANAGER_SLEEP"
Keys == {LOCK_KEYRING_SUSPEND, LOCK_KEYRING_HIBERNATE, NETWORKMANAGER_SLEEP}

WITH_LIBSECRET == "WITH_LIBSECRET"
WITH_KEYRING == "WITH_KEYRING"
Backends == {WITH_LIBSECRET, WITH_KEYRING}

ACTION_SUSPEND == "GPM_CONTROL_ACTION_SUSPEND"
ACTION_HIBERNATE == "GPM_CONTROL_ACTION_HIBERNATE"

Bool(b) == IF b THEN "TRUE" ELSE "FALSE"

(* The step that follows the initial availability check, and the step that
   follows the libsecret block: blocks that are compiled out are skipped. *)
AfterLibsecret == IF WITH_KEYRING \in build THEN "keyring" ELSE "nm_pre"
AfterCheck == IF WITH_LIBSECRET \in build THEN "libsecret" ELSE AfterLibsecret

----------------------------------------------------------------------------
(* Initial state: the controller has been constructed once (gpm_control_init
   has run), no operation has been invoked yet. *)

Init ==
  /\ pc = [t \in Threads |-> "idle"]
  /\ op = [t \in Threads |-> "none"]
  /\ ret = [t \in Threads |-> FALSE]
  /\ log = [t \in Threads |-> <<>>]
  /\ error = [t \in Threads |-> FALSE]
  /\ proxy = [t \in Threads |-> "NULL"]
  /\ prev_nm = [t \in Threads |-> "none"]
  /\ logind \in BOOLEAN
  /\ settings \in [Keys -> BOOLEAN]
  /\ build \in SUBSET Backends
  /\ gpm_control_object = 1
  /\ refcount = [i \in Instances |-> IF i = 1 THEN 1 ELSE 0]
  /\ alive = {1}
  /\ holds = [h \in Holders |-> IF h = 1 THEN 1 ELSE 0]
  /\ created = 1
  /\ last = <<"new", 1>>

----------------------------------------------------------------------------
(* History kept across invocations: whether the invocation that just ended
   called gpm_networkmanager_sleep ("none" when it was no transition). *)
PrevNm(t) ==
  IF pc[t] = "done" /\ op[t] \in {"suspend", "hibernate"}
  THEN Bool(\E i \in 1..Len(log[t]) : log[t][i][1] = "gpm_networkmanager_sleep")
  ELSE "none"

Enter_RejectsOverlap(t, name) ==
  /\ pc[t] \in {"idle", "done"}
  /\ \A u \in Threads \ {t} : pc[u] \in {"idle", "done"}
  /\ gpm_control_object # 0
  /\ pc' = [pc EXCEPT ![t] = "check"]
  /\ op' = [op EXCEPT ![t] = name]
  /\ ret' = [ret EXCEPT ![t] = FALSE]
  /\ log' = [log EXCEPT ![t] = <<>>]
  /\ error' = [error EXCEPT ![t] = FALSE]
  /\ proxy' = [proxy EXCEPT ![t] = "NULL"]
  /\ prev_nm' = [prev_nm EXCEPT ![t] = PrevNm(t)]
  /\ UNCHANGED <<env, build, life>>

(* The caller enters one of the three public operations on the instance it
   holds; the locals get their declared initial values. *)
Enter(t, name) ==
  /\ pc[t] \in {"idle", "done"}
  /\ gpm_control_object # 0
  /\ pc' = [pc EXCEPT ![t] = "check"]
  /\ op' = [op EXCEPT ![t] = name]
  /\ ret' = [ret EXCEPT ![t] = FALSE]
  /\ log' = [log EXCEPT ![t] = <<>>]
  /\ error' = [error EXCEPT ![t] = FALSE]
  /\ proxy' = [proxy EXCEPT ![t] = "NULL"]
  /\ prev_nm' = [prev_nm EXCEPT ![t] = PrevNm(t)]
  /\ UNCHANGED <<env, build, life>>

----------------------------------------------------------------------------
(* gpm_control_shutdown and gpm_control_systemd_shutdown *)

ShutdownEnter(t) == Enter(t, "shutdown")

ShutdownCheck_IgnoresLogind(t) ==
  /\ pc[t] = "check" /\ op[t] = "shutdown"
  /\ log' = [log EXCEPT ![t] = Append(@, <<"LOGIND_RUNNING", "", Bool(logind)>>)]
  /\ pc' = [pc EXCEPT ![t] = "sd_proxy"]
  /\ UNCHANGED <<op, ret, error, proxy, prev_nm, env, build, life>>

ShutdownCheck_EmitsSleep(t) ==
  /\ pc[t] = "check" /\ op[t] = "shutdown"
  /\ log' = [log EXCEPT ![t] = @ \o
               << <<"LOGIND_RUNNING", "", Bool(logind)>>,
                  <<"g_signal_emit", "sleep", ACTION_SUSPEND>> >>]
  /\ pc' = [pc EXCEPT ![t] = IF logind THEN "sd_proxy" ELSE "done"]
  /\ UNCHANGED <<op, ret, error, proxy, prev_nm, env, build, life>>

(* if (LOGIND_RUNNING()) ret = gpm_control_systemd_shutdown(); return ret; *)
ShutdownCheck(t) ==
  /\ pc[t] = "check" /\ op[t] = "shutdown"
  /\ log' = [log EXCEPT ![t] = Append(@, <<"LOGIND_RUNNING", "", Bool(logind)>>)]
  /\ pc' = [pc EXCEPT ![t] = IF logind THEN "sd_proxy" ELSE "done"]
  /\ UNCHANGED <<op, ret, error, proxy, prev_nm, env, build, life>>

(* proxy = g_dbus_proxy_new_for_bus_sync(...); if (proxy == NULL) return FALSE; *)
SystemdShutdownProxyNew(t) ==
  /\ pc[t] = "sd_proxy" /\ op[t] = "shutdown"
  /\ \E ok \in BOOLEAN :
       /\ log' = [log EXCEPT ![t] = Append(@,
                    <<"g_dbus_proxy_new_for_bus_sync", "", IF ok THEN "ok" ELSE "fail">>)]
       /\ proxy' = [proxy EXCEPT ![t] = IF ok THEN "held" ELSE "NULL"]
       /\ ret' = [ret EXCEPT ![t] = FALSE]
       /\ pc' = [pc EXCEPT ![t] = IF ok THEN "sd_call" ELSE "done"]
  /\ UNCHANGED <<op, error, prev_nm, env, build, life>>

(* res = g_dbus_proxy_call_sync(proxy, "PowerOff", ...): the request is sent
   and the thread blocks for the reply. *)
SystemdShutdownCall(t) ==
  /\ pc[t] = "sd_call" /\ op[t] = "shutdown"
  /\ log' = [log EXCEPT ![t] = Append(@, <<"g_dbus_proxy_call_sync", "PowerOff", "">>)]
  /\ pc' = [pc EXCEPT ![t] = "sd_reply"]
  /\ UNCHANGED <<op, ret, error, proxy, prev_nm, env, build, life>>

(* The reply arrives: if (error != NULL) return FALSE; ... return TRUE;
   the proxy is not released on either path. *)
SystemdShutdownReply(t) ==
  /\ pc[t] = "sd_reply" /\ op[t] = "shutdown"
  /\ \E r \in {"ok", "error"} :
       /\ log' = [log EXCEPT ![t] = Append(@, <<"reply", "PowerOff", r>>)]
       /\ ret' = [ret EXCEPT ![t] = (r = "ok")]
  /\ pc' = [pc EXCEPT ![t] = "done"]
  /\ UNCHANGED <<op, error, proxy, prev_nm, env, build, life>>

----------------------------------------------------------------------------
(* gpm_control_suspend *)

SuspendEnter(t) == Enter(t, "suspend")

SuspendCheck_IgnoresLogind(t) ==
  /\ pc[t] = "check" /\ op[t] = "suspend"
  /\ log' = [log EXCEPT ![t] = Append(@, <<"LOGIND_RUNNING", "", Bool(logind)>>)]
  /\ pc' = [pc EXCEPT ![t] = AfterCheck]
  /\ UNCHANGED <<op, ret, error, proxy, prev_nm, env, build, life>>

(* if (!LOGIND_RUNNING()) goto out; *)
SuspendCheck(t) ==
  /\ pc[t] = "check" /\ op[t] = "suspend"
  /\ log' = [log EXCEPT ![t] = Append(@, <<"LOGIND_RUNNING", "", Bool(logind)>>)]
  /\ pc' = [pc EXCEPT ![t] = IF logind THEN AfterCheck ELSE "done"]
  /\ UNCHANGED <<op, ret, error, proxy, prev_nm, env, build, life>>

SuspendLibsecret_ConnectFailureAborts(t) ==
  /\ pc[t] = "libsecret" /\ op[t] = "suspend"
  /\ LET lock_libsecret == settings[LOCK_KEYRING_SUSPEND]
         read == <<"g_settings_get_boolean", LOCK_KEYRING_SUSPEND, Bool(lock_libsecret)>>
     IN IF lock_libsecret
        THEN \E ok \in BOOLEAN :
               /\ log' = [log EXCEPT ![t] = @ \o
                            <<read, <<"secret_service_get_sync", "", IF ok THEN "ok" ELSE "fail">> >>]
               /\ error' = [error EXCEPT ![t] = ~ok]
               /\ pc' = [pc EXCEPT ![t] = IF ok THEN "ls_collections" ELSE "done"]
        ELSE /\ log' = [log EXCEPT ![t] = Append(@, read)]
             /\ pc' = [pc EXCEPT ![t] = AfterLibsecret]
             /\ UNCHANGED error
  /\ UNCHANGED <<op, ret, proxy, prev_nm, env, build, life>>

(* #ifdef WITH_LIBSECRET: lock_libsecret = g_settings_get_boolean(...SUSPEND);
   if (lock_libsecret) { secretservice_proxy = secret_service_get_sync(..., error);
   if (secretservice_proxy == NULL) g_warning(...) else ... } *)
SuspendLibsecret(t) ==
  /\ pc[t] = "libsecret" /\ op[t] = "suspend"
  /\ LET lock_libsecret == settings[LOCK_KEYRING_SUSPEND]
         read == <<"g_settings_get_boolean", LOCK_KEYRING_SUSPEND, Bool(lock_libsecret)>>
     IN IF lock_libsecret
        THEN \E ok \in BOOLEAN :
               /\ log' = [log EXCEPT ![t] = @ \o
                            <<read, <<"secret_service_get_sync", "", IF ok THEN "ok" ELSE "fail">> >>]
               /\ error' = [error EXCEPT ![t] = ~ok]
               /\ pc' = [pc EXCEPT ![t] = IF ok THEN "ls_collections" ELSE AfterLibsecret]
        ELSE /\ log' = [log EXCEPT ![t] = Append(@, read)]
             /\ pc' = [pc EXCEPT ![t] = AfterLibsecret]
             /\ UNCHANGED error
  /\ UNCHANGED <<op, ret, proxy, prev_nm, env, build, life>>

SuspendLibsecretCollections_LocksEmpty(t) ==
  /\ pc[t] = "ls_collections" /\ op[t] = "suspend"
  /\ \E some \in BOOLEAN :
       /\ log' = [log EXCEPT ![t] = Append(@,
                    <<"secret_service_get_collections", "", IF some THEN "some" ELSE "NULL">>)]
       /\ pc' = [pc EXCEPT ![t] = "ls_lock"]
  /\ UNCHANGED <<op, ret, error, proxy, prev_nm, env, build, life>>

(* libsecret_collections = secret_service_get_collections(secretservice_proxy);
   if (libsecret_collections == NULL) g_warning(...) else ... *)
SuspendLibsecretCollections(t) ==
  /\ pc[t] = "ls_collections" /\ op[t] = "suspend"
  /\ \E some \in BOOLEAN :
       /\ log' = [log EXCEPT ![t] = Append(@,
                    <<"secret_service_get_collections", "", IF some THEN "some" ELSE "NULL">>)]
       /\ pc' = [pc EXCEPT ![t] = IF some THEN "ls_lock" ELSE AfterLibsecret]
  /\ UNCHANGED <<op, ret, error, proxy, prev_nm, env, build, life>>

(* num_secrets_locked = secret_service_lock_sync(..., error);
   if (num_secrets_locked <= 0) g_warning("could not lock keyring"); *)
SuspendLibsecretLock(t) ==
  /\ pc[t] = "ls_lock" /\ op[t] = "suspend"
  /\ \E r \in {"locked", "zero", "error"} :
       /\ log' = [log EXCEPT ![t] = Append(@, <<"secret_service_lock_sync", "", r>>)]
       /\ error' = [error EXCEPT ![t] = (r = "error")]
  /\ pc' = [pc EXCEPT ![t] = AfterLibsecret]
  /\ UNCHANGED <<op, ret, proxy, prev_nm, env, build, life>>

(* #ifdef WITH_KEYRING: lock_gnome_keyring = g_settings_get_boolean(...SUSPEND);
   if (lock_gnome_keyring) { keyres = gnome_keyring_lock_all_sync(); ... } *)
SuspendKeyring(t) ==
  /\ pc[t] = "keyring" /\ op[t] = "suspend"
  /\ LET lock_gnome_keyring == settings[LOCK_KEYRING_SUSPEND]
         read == <<"g_settings_get_boolean", LOCK_KEYRING_SUSPEND, Bool(lock_gnome_keyring)>>
     IN IF lock_gnome_keyring
        THEN \E keyres \in {"GNOME_KEYRING_RESULT_OK", "other"} :
               log' = [log EXCEPT ![t] = @ \o
                         <<read, <<"gnome_keyring_lock_all_sync", "", keyres>> >>]
        ELSE log' = [log EXCEPT ![t] = Append(@, read)]
  /\ pc' = [pc EXCEPT ![t] = "nm_pre"]
  /\ UNCHANGED <<op, ret, error, proxy, prev_nm, env, build, life>>

SuspendNmSleep_IgnoresSetting(t) ==
  /\ pc[t] = "nm_pre" /\ op[t] = "suspend"
  /\ LET nm_sleep == settings[NETWORKMANAGER_SLEEP]
         read == <<"g_settings_get_boolean", NETWORKMANAGER_SLEEP, Bool(nm_sleep)>>
     IN log' = [log EXCEPT ![t] = @ \o <<read, <<"gpm_networkmanager_sleep", "", "">> >>]
  /\ pc' = [pc EXCEPT ![t] = "emit_sleep"]
  /\ UNCHANGED <<op, ret, error, proxy, prev_nm, env, build, life>>

SuspendNmSleep_AfterSleepEmit(t) ==
  /\ pc[t] = "nm_pre" /\ op[t] = "suspend"
  /\ LET nm_sleep == settings[NETWORKMANAGER_SLEEP]
         read == <<"g_settings_get_boolean", NETWORKMANAGER_SLEEP, Bool(nm_sleep)>>
         emit == <<"g_signal_emit", "sleep", ACTION_SUSPEND>>
     IN log' = [log EXCEPT ![t] =
                  IF nm_sleep THEN @ \o <<emit, read, <<"gpm_networkmanager_sleep", "", "">> >>
                              ELSE @ \o <<emit, read>>]
  /\ pc' = [pc EXCEPT ![t] = "recheck"]
  /\ UNCHANGED <<op, ret, error, proxy, prev_nm, env, build, life>>

(* nm_sleep = g_settings_get_boolean(...NETWORKMANAGER_SLEEP);
   if (nm_sleep) gpm_networkmanager_sleep(); *)
SuspendNmSleep(t) ==
  /\ pc[t] = "nm_pre" /\ op[t] = "suspend"
  /\ LET nm_sleep == settings[NETWORKMANAGER_SLEEP]
         read == <<"g_settings_get_boolean", NETWORKMANAGER_SLEEP, Bool(nm_sleep)>>
     IN log' = [log EXCEPT ![t] =
                  IF nm_sleep THEN @ \o <<read, <<"gpm_networkmanager_sleep", "", "">> >>
                              ELSE Append(@, read)]
  /\ pc' = [pc EXCEPT ![t] = "emit_sleep"]
  /\ UNCHANGED <<op, ret, error, proxy, prev_nm, env, build, life>>

SuspendEmitSleep_Omitted(t) ==
  /\ pc[t] = "emit_sleep" /\ op[t] = "suspend"
  /\ pc' = [pc EXCEPT ![t] = "recheck"]
  /\ UNCHANGED <<op, ret, log, error, proxy, prev_nm, env, build, life>>

(* g_signal_emit(control, signals[SLEEP], 0, GPM_CONTROL_ACTION_SUSPEND); *)
SuspendEmitSleep(t) ==
  /\ pc[t] = "emit_sleep" /\ op[t] = "suspend"
  /\ log' = [log EXCEPT ![t] = Append(@, <<"g_signal_emit", "sleep", ACTION_SUSPEND>>)]
  /\ pc' = [pc EXCEPT ![t] = "recheck"]
  /\ UNCHANGED <<op, ret, error, proxy, prev_nm, env, build, life>>

SuspendRecheck_WaitsForLogind(t) ==
  /\ pc[t] = "recheck" /\ op[t] = "suspend"
  /\ logind
  /\ log' = [log EXCEPT ![t] = Append(@, <<"LOGIND_RUNNING", "", Bool(logind)>>)]
  /\ pc' = [pc EXCEPT ![t] = "proxy_new"]
  /\ UNCHANGED <<op, ret, error, proxy, prev_nm, env, build, life>>

(* if (LOGIND_RUNNING()) { ... } : when it is false the whole block is
   skipped and control falls through to "emitting resume". *)
SuspendRecheck(t) ==
  /\ pc[t] = "recheck" /\ op[t] = "suspend"
  /\ log' = [log EXCEPT ![t] = Append(@, <<"LOGIND_RUNNING", "", Bool(logind)>>)]
  /\ pc' = [pc EXCEPT ![t] = IF logind THEN "proxy_new" ELSE "emit_resume"]
  /\ UNCHANGED <<op, ret, error, proxy, prev_nm, env, build, life>>

SuspendProxyNew_FailureFallsThrough(t) ==
  /\ pc[t] = "proxy_new" /\ op[t] = "suspend"
  /\ \E ok \in BOOLEAN :
       /\ log' = [log EXCEPT ![t] = Append(@,
                    <<"g_dbus_proxy_new_for_bus_sync", "", IF ok THEN "ok" ELSE "fail">>)]
       /\ proxy' = [proxy EXCEPT ![t] = IF ok THEN "held" ELSE "NULL"]
       /\ ret' = [ret EXCEPT ![t] = IF ok THEN @ ELSE FALSE]
       /\ pc' = [pc EXCEPT ![t] = IF ok THEN "call" ELSE "emit_resume"]
  /\ UNCHANGED <<op, error, prev_nm, env, build, life>>

SuspendProxyNew_RetriesOnFailure(t) ==
  /\ pc[t] = "proxy_new" /\ op[t] = "suspend"
  /\ \E ok \in BOOLEAN :
       /\ log' = [log EXCEPT ![t] = Append(@,
                    <<"g_dbus_proxy_new_for_bus_sync", "", IF ok THEN "ok" ELSE "fail">>)]
       /\ proxy' = [proxy EXCEPT ![t] = IF ok THEN "held" ELSE "NULL"]
       /\ ret' = [ret EXCEPT ![t] = IF ok THEN @ ELSE FALSE]
       /\ pc' = [pc EXCEPT ![t] =
                   IF ok THEN "call"
                   ELSE IF Len(log[t]) < 24 THEN "proxy_new" ELSE "done"]
  /\ UNCHANGED <<op, error, prev_nm, env, build, life>>

(* proxy = g_dbus_proxy_new_for_bus_sync(...);
   if (proxy == NULL) { ...; ret = FALSE; goto out; } *)
SuspendProxyNew(t) ==
  /\ pc[t] = "proxy_new" /\ op[t] = "suspend"
  /\ \E ok \in BOOLEAN :
       /\ log' = [log EXCEPT ![t] = Append(@,
                    <<"g_dbus_proxy_new_for_bus_sync", "", IF ok THEN "ok" ELSE "fail">>)]
       /\ proxy' = [proxy EXCEPT ![t] = IF ok THEN "held" ELSE "NULL"]
       /\ ret' = [ret EXCEPT ![t] = IF ok THEN @ ELSE FALSE]
       /\ pc' = [pc EXCEPT ![t] = IF ok THEN "call" ELSE "done"]
  /\ UNCHANGED <<op, error, prev_nm, env, build, life>>

(* res = g_dbus_proxy_call_sync(proxy, "Suspend", ...): the request is sent
   and the thread blocks for the reply. *)
SuspendCall(t) ==
  /\ pc[t] = "call" /\ op[t] = "suspend"
  /\ log' = [log EXCEPT ![t] = Append(@, <<"g_dbus_proxy_call_sync", "Suspend", "">>)]
  /\ pc' = [pc EXCEPT ![t] = "reply"]
  /\ UNCHANGED <<op, ret, error, proxy, prev_nm, env, build, life>>

SuspendReply_PropagatesError(t) ==
  /\ pc[t] = "reply" /\ op[t] = "suspend"
  /\ \E r \in {"ok", "error"} :
       /\ log' = [log EXCEPT ![t] = @ \o
                    << <<"reply", "Suspend", r>>, <<"g_object_unref", "proxy", "">> >>]
       /\ ret' = [ret EXCEPT ![t] = (r = "ok")]
  /\ proxy' = [proxy EXCEPT ![t] = "released"]
  /\ pc' = [pc EXCEPT ![t] = "emit_resume"]
  /\ UNCHANGED <<op, error, prev_nm, env, build, life>>

(* The reply arrives: if (dbus_error != NULL) { ...; ret = TRUE; }
   else { g_variant_unref(res); ret = TRUE; }  g_object_unref(proxy); *)
SuspendReply(t) ==
  /\ pc[t] = "reply" /\ op[t] = "suspend"
  /\ \E r \in {"ok", "error"} :
       /\ log' = [log EXCEPT ![t] = @ \o
                    << <<"reply", "Suspend", r>>, <<"g_object_unref", "proxy", "">> >>]
       /\ ret' = [ret EXCEPT ![t] = IF r = "error" THEN TRUE ELSE TRUE]
  /\ proxy' = [proxy EXCEPT ![t] = "released"]
  /\ pc' = [pc EXCEPT ![t] = "emit_resume"]
  /\ UNCHANGED <<op, error, prev_nm, env, build, life>>

SuspendEmitResume_SetsSuccess(t) ==
  /\ pc[t] = "emit_resume" /\ op[t] = "suspend"
  /\ log' = [log EXCEPT ![t] = Append(@, <<"g_signal_emit", "resume", ACTION_SUSPEND>>)]
  /\ ret' = [ret EXCEPT ![t] = TRUE]
  /\ pc' = [pc EXCEPT ![t] = "nm_post"]
  /\ UNCHANGED <<op, error, proxy, prev_nm, env, build, life>>

(* g_signal_emit(control, signals[RESUME], 0, GPM_CONTROL_ACTION_SUSPEND); *)
SuspendEmitResume(t) ==
  /\ pc[t] = "emit_resume" /\ op[t] = "suspend"
  /\ log' = [log EXCEPT ![t] = Append(@, <<"g_signal_emit", "resume", ACTION_SUSPEND>>)]
  /\ pc' = [pc EXCEPT ![t] = "nm_post"]
  /\ UNCHANGED <<op, ret, error, proxy, prev_nm, env, build, life>>

(* nm_sleep = g_settings_get_boolean(...NETWORKMANAGER_SLEEP);
   if (nm_sleep) gpm_networkmanager_wake();  out: return ret; *)
SuspendNmWake(t) ==
  /\ pc[t] = "nm_post" /\ op[t] = "suspend"
  /\ LET nm_sleep == settings[NETWORKMANAGER_SLEEP]
         read == <<"g_settings_get_boolean", NETWORKMANAGER_SLEEP, Bool(nm_sleep)>>
     IN log' = [log EXCEPT ![t] =
                  IF nm_sleep THEN @ \o <<read, <<"gpm_networkmanager_wake", "", "">> >>
                              ELSE Append(@, read)]
  /\ pc' = [pc EXCEPT ![t] = "done"]
  /\ UNCHANGED <<op, ret, error, proxy, prev_nm, env, build, life>>

----------------------------------------------------------------------------
(* gpm_control_hibernate *)

HibernateEnter(t) == Enter(t, "hibernate")

(* if (!LOGIND_RUNNING()) goto out; *)
HibernateCheck(t) ==
  /\ pc[t] = "check" /\ op[t] = "hibernate"
  /\ log' = [log EXCEPT ![t] = Append(@, <<"LOGIND_RUNNING", "", Bool(logind)>>)]
  /\ pc' = [pc EXCEPT ![t] = IF logind THEN AfterCheck ELSE "done"]
  /\ UNCHANGED <<op, ret, error, proxy, prev_nm, env, build, life>>

(* #ifdef WITH_LIBSECRET: lock_libsecret = g_settings_get_boolean(...SUSPEND)
   -- line 261 reads the suspend key, not the hibernate key --;
   if (lock_libsecret) { secretservice_proxy = secret_service_get_sync(..., error);
   if (secretservice_proxy == NULL) g_warning(...) else ... } *)
HibernateLibsecret(t) ==
  /\ pc[t] = "libsecret" /\ op[t] = "hibernate"
  /\ LET lock_libsecret == settings[LOCK_KEYRING_SUSPEND]
         read == <<"g_settings_get_boolean", LOCK_KEYRING_SUSPEND, Bool(lock_libsecret)>>
     IN IF lock_libsecret
        THEN \E ok \in BOOLEAN :
               /\ log' = [log EXCEPT ![t] = @ \o
                            <<read, <<"secret_service_get_sync", "", IF ok THEN "ok" ELSE "fail">> >>]
               /\ error' = [error EXCEPT ![t] = ~ok]
               /\ pc' = [pc EXCEPT ![t] = IF ok THEN "ls_collections" ELSE AfterLibsecret]
        ELSE /\ log' = [log EXCEPT ![t] = Append(@, read)]
             /\ pc' = [pc EXCEPT ![t] = AfterLibsecret]
             /\ UNCHANGED error
  /\ UNCHANGED <<op, ret, proxy, prev_nm, env, build, life>>

(* libsecret_collections = secret_service_get_collections(secretservice_proxy);
   if (libsecret_collections == NULL) g_warning(...) else ... *)
HibernateLibsecretCollections(t) ==
  /\ pc[t] = "ls_collections" /\ op[t] = "hibernate"
  /\ \E some \in BOOLEAN :
       /\ log' = [log EXCEPT ![t] = Append(@,
                    <<"secret_service_get_collections", "", IF some THEN "some" ELSE "NULL">>)]
       /\ pc' = [pc EXCEPT ![t] = IF some THEN "ls_lock" ELSE AfterLibsecret]
  /\ UNCHANGED <<op, ret, error, proxy, prev_nm, env, build, life>>

(* num_secrets_locked = secret_service_lock_sync(..., error);
   if (num_secrets_locked <= 0) g_warning("could not lock keyring"); *)
HibernateLibsecretLock(t) ==
  /\ pc[t] = "ls_lock" /\ op[t] = "hibernate"
  /\ \E r \in {"locked", "zero", "error"} :
       /\ log' = [log EXCEPT ![t] = Append(@, <<"secret_service_lock_sync", "", r>>)]
       /\ error' = [error EXCEPT ![t] = (r = "error")]
  /\ pc' = [pc EXCEPT ![t] = AfterLibsecret]
  /\ UNCHANGED <<op, ret, proxy, prev_nm, env, build, life>>

(* #ifdef WITH_KEYRING: lock_gnome_keyring = g_settings_get_boolean(...HIBERNATE);
   if (lock_gnome_keyring) { keyres = gnome_keyring_lock_all_sync(); ... } *)
HibernateKeyring(t) ==
  /\ pc[t] = "keyring" /\ op[t] = "hibernate"
  /\ LET lock_gnome_keyring == settings[LOCK_KEYRING_HIBERNATE]
         read == <<"g_settings_get_boolean", LOCK_KEYRING_HIBERNATE, Bool(lock_gnome_keyring)>>
     IN IF lock_gnome_keyring
        THEN \E keyres \in {"GNOME_KEYRING_RESULT_OK", "other"} :
               log' = [log EXCEPT ![t] = @ \o
                         <<read, <<"gnome_keyring_lock_all_sync", "", keyres>> >>]
        ELSE log' = [log EXCEPT ![t] = Append(@, read)]
  /\ pc' = [pc EXCEPT ![t] = "nm_pre"]
  /\ UNCHANGED <<op, ret, error, proxy, prev_nm, env, build, life>>

(* nm_sleep = g_settings_get_boolean(...NETWORKMANAGER_SLEEP);
   if (nm_sleep) gpm_networkmanager_sleep(); *)
HibernateNmSleep(t) ==
  /\ pc[t] = "nm_pre" /\ op[t] = "hibernate"
  /\ LET nm_sleep == settings[NETWORKMANAGER_SLEEP]
         read == <<"g_settings_get_boolean", NETWORKMANAGER_SLEEP, Bool(nm_sleep)>>
     IN log' = [log EXCEPT ![t] =
                  IF nm_sleep THEN @ \o <<read, <<"gpm_networkmanager_sleep", "", "">> >>
                              ELSE Append(@, read)]
  /\ pc' = [pc EXCEPT ![t] = "emit_sleep"]
  /\ UNCHANGED <<op, ret, error, proxy, prev_nm, env, build, life>>

(* g_signal_emit(control, signals[SLEEP], 0, GPM_CONTROL_ACTION_HIBERNATE); *)
HibernateEmitSleep(t) ==
  /\ pc[t] = "emit_sleep" /\ op[t] = "hibernate"
  /\ log' = [log EXCEPT ![t] = Append(@, <<"g_signal_emit", "sleep", ACTION_HIBERNATE>>)]
  /\ pc' = [pc EXCEPT ![t] = "recheck"]
  /\ UNCHANGED <<op, ret, error, proxy, prev_nm, env, build, life>>

(* if (LOGIND_RUNNING()) { ... } : when it is false the whole block is
   skipped and control falls through to "emitting resume". *)
HibernateRecheck(t) ==
  /\ pc[t] = "recheck" /\ op[t] = "hibernate"
  /\ log' = [log EXCEPT ![t] = Append(@, <<"LOGIND_RUNNING", "", Bool(logind)>>)]
  /\ pc' = [pc EXCEPT ![t] = IF logind THEN "proxy_new" ELSE "emit_resume"]
  /\ UNCHANGED <<op, ret, error, proxy, prev_nm, env, build, life>>

(* proxy = g_dbus_proxy_new_for_bus_sync(...);
   if (proxy == NULL) { ...; ret = FALSE; goto out; } *)
HibernateProxyNew(t) ==
  /\ pc[t] = "proxy_new" /\ op[t] = "hibernate"
  /\ \E ok \in BOOLEAN :
       /\ log' = [log EXCEPT ![t] = Append(@,
                    <<"g_dbus_proxy_new_for_bus_sync", "", IF ok THEN "ok" ELSE "fail">>)]
       /\ proxy' = [proxy EXCEPT ![t] = IF ok THEN "held" ELSE "NULL"]
       /\ ret' = [ret EXCEPT ![t] = IF ok THEN @ ELSE FALSE]
       /\ pc' = [pc EXCEPT ![t] = IF ok THEN "call" ELSE "done"]
  /\ UNCHANGED <<op, error, prev_nm, env, build, life>>

(* res = g_dbus_proxy_call_sync(proxy, "Hibernate", ...): the request is sent
   and the thread blocks for the reply. *)
HibernateCall(t) ==
  /\ pc[t] = "call" /\ op[t] = "hibernate"
  /\ log' = [log EXCEPT ![t] = Append(@, <<"g_dbus_proxy_call_sync", "Hibernate", "">>)]
  /\ pc' = [pc EXCEPT ![t] = "reply"]
  /\ UNCHANGED <<op, ret, error, proxy, prev_nm, env, build, life>>

HibernateReply_PropagatesError(t) ==
  /\ pc[t] = "reply" /\ op[t] = "hibernate"
  /\ \E r \in {"ok", "error"} :
       /\ log' = [log EXCEPT ![t] = Append(@, <<"reply", "Hibernate", r>>)]
       /\ ret' = [ret EXCEPT ![t] = (r = "ok")]
  /\ pc' = [pc EXCEPT ![t] = "emit_resume"]
  /\ UNCHANGED <<op, error, proxy, prev_nm, env, build, life>>

(* The reply arrives: if (dbus_error != NULL) { ...; ret = TRUE; }
   else { g_variant_unref(res); ret = TRUE; }
   -- unlike gpm_control_suspend there is no g_object_unref(proxy) -- *)
HibernateReply(t) ==
  /\ pc[t] = "reply" /\ op[t] = "hibernate"
  /\ \E r \in {"ok", "error"} :
       /\ log' = [log EXCEPT ![t] = Append(@, <<"reply", "Hibernate", r>>)]
       /\ ret' = [ret EXCEPT ![t] = IF r = "error" THEN TRUE ELSE TRUE]
  /\ pc' = [pc EXCEPT ![t] = "emit_resume"]
  /\ UNCHANGED <<op, error, proxy, prev_nm, env, build, life>>

HibernateEmitResume_WrongKind(t) ==
  /\ pc[t] = "emit_resume" /\ op[t] = "hibernate"
  /\ log' = [log EXCEPT ![t] = Append(@, <<"g_signal_emit", "resume", ACTION_SUSPEND>>)]
  /\ pc' = [pc EXCEPT ![t] = "nm_post"]
  /\ UNCHANGED <<op, ret, error, proxy, prev_nm, env, build, life>>

(* g_signal_emit(control, signals[RESUME], 0, GPM_CONTROL_ACTION_HIBERNATE); *)
HibernateEmitResume(t) ==
  /\ pc[t] = "emit_resume" /\ op[t] = "hibernate"
  /\ log' = [log EXCEPT ![t] = Append(@, <<"g_signal_emit", "resume", ACTION_HIBERNATE>>)]
  /\ pc' = [pc EXCEPT ![t] = "nm_post"]
  /\ UNCHANGED <<op, ret, error, proxy, prev_nm, env, build, life>>

(* nm_sleep = g_settings_get_boolean(...NETWORKMANAGER_SLEEP);
   if (nm_sleep) gpm_networkmanager_wake();  out: return ret; *)
HibernateNmWake(t) ==
  /\ pc[t] = "nm_post" /\ op[t] = "hibernate"
  /\ LET nm_sleep == settings[NETWORKMANAGER_SLEEP]
         read == <<"g_settings_get_boolean", NETWORKMANAGER_SLEEP, Bool(nm_sleep)>>
     IN log' = [log EXCEPT ![t] =
                  IF nm_sleep THEN @ \o <<read, <<"gpm_networkmanager_wake", "", "">> >>
                              ELSE Append(@, read)]
  /\ pc' = [pc EXCEPT ![t] = "done"]
  /\ UNCHANGED <<op, ret, error, proxy, prev_nm, env, build, life>>

----------------------------------------------------------------------------
(* The environment: the GSettings keys and the presence of logind change
   outside the controller, at any moment. *)

SettingsChanged ==
  /\ \E k \in Keys : settings' = [settings EXCEPT ![k] = ~@]
  /\ UNCHANGED <<thr, logind, build, life>>

LogindChanged ==
  /\ logind' = ~logind
  /\ UNCHANGED <<thr, settings, build, life>>

----------------------------------------------------------------------------
(* gpm_control_new, g_object_unref and gpm_control_finalize *)

GpmControlNew_AlwaysAllocates(h) ==
  /\ holds[h] = 0
  /\ created < MaxInstances
  /\ LET fresh == created + 1
     IN /\ gpm_control_object' = fresh
        /\ refcount' = [refcount EXCEPT ![fresh] = 1]
        /\ alive' = alive \cup {fresh}
        /\ created' = fresh
        /\ holds' = [holds EXCEPT ![h] = fresh]
        /\ last' = <<"new", fresh>>
  /\ UNCHANGED <<thr, env, build>>

(* if (gpm_control_object != NULL) g_object_ref(gpm_control_object);
   else { gpm_control_object = g_object_new(GPM_TYPE_CONTROL, NULL);
          g_object_add_weak_pointer(gpm_control_object, &gpm_control_object); }
   return GPM_CONTROL(gpm_control_object); *)
GpmControlNew(h) ==
  /\ holds[h] = 0
  /\ IF gpm_control_object # 0
     THEN /\ refcount' = [refcount EXCEPT ![gpm_control_object] = @ + 1]
          /\ holds' = [holds EXCEPT ![h] = gpm_control_object]
          /\ last' = <<"ref", gpm_control_object>>
          /\ UNCHANGED <<gpm_control_object, alive, created>>
     ELSE /\ created < MaxInstances
          /\ LET fresh == created + 1
             IN /\ gpm_control_object' = fresh
                /\ refcount' = [refcount EXCEPT ![fresh] = 1]
                /\ alive' = alive \cup {fresh}
                /\ created' = fresh
                /\ holds' = [holds EXCEPT ![h] = fresh]
                /\ last' = <<"new", fresh>>
  /\ UNCHANGED <<thr, env, build>>

(* A holder releases its reference with g_object_unref.  Releasing the last
   reference disposes the object: the weak pointer registered by
   gpm_control_new clears gpm_control_object, then gpm_control_finalize runs. *)
GpmControlUnref(h) ==
  /\ holds[h] # 0
  /\ LET i == holds[h]
         finalized == refcount[i] = 1
     IN /\ refcount' = [refcount EXCEPT ![i] = @ - 1]
        /\ holds' = [holds EXCEPT ![h] = 0]
        /\ alive' = IF finalized THEN alive \ {i} ELSE alive
        /\ gpm_control_object' =
             IF finalized /\ gpm_control_object = i THEN 0 ELSE gpm_control_object
        /\ last' = <<IF finalized THEN "finalize" ELSE "unref", i>>
  /\ UNCHANGED <<created, thr, env, build>>

----------------------------------------------------------------------------
(* Specifications *)

ShutdownStep(t) ==
  \/ ShutdownEnter(t)
  \/ ShutdownCheck(t)
  \/ SystemdShutdownProxyNew(t)
  \/ SystemdShutdownCall(t)
  \/ SystemdShutdownReply(t)

SuspendStep(t) ==
  \/ SuspendEnter(t)
  \/ SuspendCheck(t)
  \/ SuspendLibsecret(t)
  \/ SuspendLibsecretCollections(t)
  \/ SuspendLibsecretLock(t)
  \/ SuspendKeyring(t)
  \/ SuspendNmSleep(t)
  \/ SuspendEmitSleep(t)
  \/ SuspendRecheck(t)
  \/ SuspendProxyNew(t)
  \/ SuspendCall(t)
  \/ SuspendReply(t)
  \/ SuspendEmitResume(t)
  \/ SuspendNmWake(t)

HibernateStep(t) ==
  \/ HibernateEnter(t)
  \/ HibernateCheck(t)
  \/ HibernateLibsecret(t)
  \/ HibernateLibsecretCollections(t)
  \/ HibernateLibsecretLock(t)
  \/ HibernateKeyring(t)
  \/ HibernateNmSleep(t)
  \/ HibernateEmitSleep(t)
  \/ HibernateRecheck(t)
  \/ HibernateProxyNew(t)
  \/ HibernateCall(t)
  \/ HibernateReply(t)
  \/ HibernateEmitResume(t)
  \/ HibernateNmWake(t)

(* The program as it runs: one thread (the GLib main loop) invokes the
   operations one after the other while the environment changes. *)
Next ==
  \/ ShutdownStep(MainThread)
  \/ SuspendStep(MainThread)
  \/ HibernateStep(MainThread)
  \/ SettingsChanged
  \/ LogindChanged

Spec == Init /\ [][Next]_vars

(* The life cycle of the singleton, from program start (the static
   gpm_control_object is NULL and nothing is allocated). *)
InitLife ==
  /\ pc = [t \in Threads |-> "idle"]
  /\ op = [t \in Threads |-> "none"]
  /\ ret = [t \in Threads |-> FALSE]
  /\ log = [t \in Threads |-> <<>>]
  /\ error = [t \in Threads |-> FALSE]
  /\ proxy = [t \in Threads |-> "NULL"]
  /\ prev_nm = [t \in Threads |-> "none"]
  /\ logind = TRUE
  /\ settings = [k \in Keys |-> FALSE]
  /\ build = {}
  /\ gpm_control_object = 0
  /\ refcount = [i \in Instances |-> 0]
  /\ alive = {}
  /\ holds = [h \in Holders |-> 0]
  /\ created = 0
  /\ last = <<"none", 0>>

NextLife ==
  \/ \E h \in Holders : GpmControlNew(h)
  \/ \E h \in Holders : GpmControlUnref(h)

SpecLife == InitLife /\ [][NextLife]_vars

----------------------------------------------------------------------------
(* Reading the call trace of the current (or last) invocation of thread t *)

Transition(t) == op[t] \in {"suspend", "hibernate"}

Has(t, f, a) == \E i \in DOMAIN log[t] : log[t][i][1] = f /\ log[t][i][2] = a

HasRes(t, f, a, r) == \E i \in DOMAIN log[t] : log[t][i] = <<f, a, r>>

\* index of the first call of f with argument a, 0 when there is none
Pos(t, f, a) ==
  IF Has(t, f, a)
  THEN CHOOSE i \in DOMAIN log[t] :
         /\ log[t][i][1] = f /\ log[t][i][2] = a
         /\ \A j \in 1..(i - 1) : ~(log[t][j][1] = f /\ log[t][j][2] = a)
  ELSE 0

\* the answers LOGIND_RUNNING() gave, in order
Probes(t) == SelectSeq(log[t], LAMBDA e : e[1] = "LOGIND_RUNNING")

\* the values read from the network-sleep key, in order
NmReads(t) ==
  SelectSeq(log[t], LAMBDA e : e[1] = "g_settings_get_boolean" /\ e[2] = NETWORKMANAGER_SLEEP)

Method(t) ==
  CASE op[t] = "suspend" -> "Suspend"
    [] op[t] = "hibernate" -> "Hibernate"
    [] OTHER -> "PowerOff"

Unavailable(t) == Len(Probes(t)) >= 1 /\ Probes(t)[1][3] = "FALSE"
PassedCheck(t) == Len(Probes(t)) >= 1 /\ Probes(t)[1][3] = "TRUE"
RecheckFailed(t) == Len(Probes(t)) >= 2 /\ Probes(t)[2][3] = "FALSE"
ConnectFailed(t) == HasRes(t, "g_dbus_proxy_new_for_bus_sync", "", "fail")
Connected(t) == HasRes(t, "g_dbus_proxy_new_for_bus_sync", "", "ok")
CallIssued(t) == Has(t, "g_dbus_proxy_call_sync", Method(t))
RemoteError(t) == HasRes(t, "reply", Method(t), "error")
SleepEmitted(t) == Has(t, "g_signal_emit", "sleep")
ResumeEmitted(t) == Has(t, "g_signal_emit", "resume")
NmSleepCalled(t) == Has(t, "gpm_networkmanager_sleep", "")
NmWakeCalled(t) == Has(t, "gpm_networkmanager_wake", "")

\* the calls C1 lists: credential lock, network, broadcasts, login-manager IPC
SideEffectCalls ==
  {"secret_service_get_sync", "secret_service_get_collections",
   "secret_service_lock_sync", "gnome_keyring_lock_all_sync",
   "gpm_networkmanager_sleep", "gpm_networkmanager_wake", "g_signal_emit",
   "g_dbus_proxy_new_for_bus_sync", "g_dbus_proxy_call_sync"}

----------------------------------------------------------------------------
(* C1: suspend() and hibernate() with the login manager unavailable at the
   initial probe return failure and make none of the calls: credential lock,
   network pre-sleep/post-wake, sleep/resume broadcast, login-manager
   connection, Suspend/Hibernate. *)
C1_UnavailableNoSideEffects ==
  \A t \in Threads :
    (Transition(t) /\ Unavailable(t)) =>
      /\ pc[t] = "done"
      /\ ret[t] = FALSE
      /\ \A i \in DOMAIN log[t] : log[t][i][1] \notin SideEffectCalls

\* a hibernate() refused at the initial probe although every setting asked
\* for locking and network quiescing and a back-end is compiled in
C1_Witness ==
  /\ op[MainThread] = "hibernate" /\ pc[MainThread] = "done"
  /\ Unavailable(MainThread)
  /\ \A k \in Keys : settings[k]
  /\ build = Backends

(* C2: in every suspend()/hibernate() that returns success the "sleep" signal
   is emitted strictly before the Suspend/Hibernate call is dispatched and the
   "resume" signal strictly after its reply, be the reply ok or an error. *)
C2_SleepBeforeCallBeforeResume ==
  \A t \in Threads :
    (Transition(t) /\ pc[t] = "done" /\ ret[t] = TRUE) =>
      LET sleep == Pos(t, "g_signal_emit", "sleep")
          call == Pos(t, "g_dbus_proxy_call_sync", Method(t))
          reply == Pos(t, "reply", Method(t))
          resume == Pos(t, "g_signal_emit", "resume")
      IN  0 < sleep /\ sleep < call /\ call < reply /\ reply < resume

C2_Witness ==
  /\ op[MainThread] = "hibernate" /\ pc[MainThread] = "done"
  /\ ret[MainThread] = TRUE
  /\ RemoteError(MainThread)

(* C3: once the login-manager connection is established, a remote error reply
   to Suspend (resp. Hibernate) still makes suspend() (resp. hibernate())
   return success, and the "resume" signal is still emitted. *)
C3_RemoteErrorStillSuccess ==
  \A t \in Threads :
    (Transition(t) /\ pc[t] = "done" /\ Connected(t) /\ RemoteError(t)) =>
      ret[t] = TRUE /\ ResumeEmitted(t)

C3_Witness ==
  /\ op[MainThread] = "suspend" /\ pc[MainThread] = "done"
  /\ Connected(MainThread) /\ RemoteError(MainThread)

(* C4 as claimed: each of shutdown(), suspend() and hibernate() returns failure
   only when the login manager is unavailable or the connection to it cannot
   be established; a remote error reply never makes it return failure. *)
C4_Original ==
  \A t \in Threads :
    (op[t] # "none" /\ pc[t] = "done") =>
      /\ ret[t] = FALSE => (Unavailable(t) \/ RecheckFailed(t) \/ ConnectFailed(t))
      /\ RemoteError(t) => ret[t] = TRUE

(* C4 as amended: suspend() and hibernate() return failure only when the
   login manager is unavailable or the connection cannot be established, and
   absorb a remote error reply; shutdown() returns failure in those cases and
   also when PowerOff replies with an error. *)
C4_FailureCauses ==
  \A t \in Threads :
    (op[t] # "none" /\ pc[t] = "done") =>
      /\ Transition(t) =>
           /\ ret[t] = FALSE => (Unavailable(t) \/ RecheckFailed(t) \/ ConnectFailed(t))
           /\ RemoteError(t) => ret[t] = TRUE
      /\ op[t] = "shutdown" =>
           (ret[t] = FALSE <=> (Unavailable(t) \/ ConnectFailed(t) \/ RemoteError(t)))

C4_Witness ==
  /\ op[MainThread] = "shutdown" /\ pc[MainThread] = "done"
  /\ RemoteError(MainThread) /\ ret[MainThread] = FALSE

(* C5: the returned outcome and the emission of the sleep signal, the
   privileged call and the resume signal of suspend()/hibernate() are fixed by
   the availability re-check and the login-manager connection alone: they are
   the same whatever the credential lock step did (not attempted, failed at
   connect, at enumeration or at lock, or succeeded). *)
C5_LockOutcomeIrrelevant ==
  \A t \in Threads :
    (Transition(t) /\ pc[t] = "done" /\ PassedCheck(t)) =>
      LET reached == ~RecheckFailed(t) /\ Connected(t)
      IN  /\ SleepEmitted(t)
          /\ ret[t] = reached
          /\ CallIssued(t) = reached
          /\ ResumeEmitted(t) = (RecheckFailed(t) \/ Connected(t))

\* the lock failed at connect (resp. at enumeration, at lock) and the
\* transition still succeeded
C5_Witness ==
  /\ Transition(MainThread) /\ pc[MainThread] = "done" /\ ret[MainThread] = TRUE
  /\ \/ HasRes(MainThread, "secret_service_get_sync", "", "fail")
     \/ HasRes(MainThread, "secret_service_lock_sync", "", "error")
  /\ HasRes(MainThread, "gnome_keyring_lock_all_sync", "", "other")

(* C6: shutdown() never emits the "sleep" or the "resume" signal, whatever
   the settings, the availability and the PowerOff outcome. *)
C6_ShutdownNoSignals ==
  \A t \in Threads :
    op[t] = "shutdown" => \A i \in DOMAIN log[t] : log[t][i][1] # "g_signal_emit"

C6_Witness ==
  /\ op[MainThread] = "shutdown" /\ pc[MainThread] = "done"
  /\ ret[MainThread] = TRUE
  /\ \A k \in Keys : settings[k]

(* C7: shutdown() with the login manager unavailable at its probe returns
   failure, opens no login-manager connection and issues no PowerOff. *)
C7_ShutdownUnavailable ==
  \A t \in Threads :
    (op[t] = "shutdown" /\ Unavailable(t)) =>
      /\ pc[t] = "done"
      /\ ret[t] = FALSE
      /\ ~Has(t, "g_dbus_proxy_new_for_bus_sync", "")
      /\ ~CallIssued(t)
      /\ proxy[t] = "NULL"

C7_Witness ==
  /\ op[MainThread] = "shutdown" /\ pc[MainThread] = "done"
  /\ Unavailable(MainThread)

(* C8 as claimed: in every suspend()/hibernate() that passes the initial
   availability check, gpm_networkmanager_sleep and gpm_networkmanager_wake
   are each called if and only if the network-sleep setting is true at the
   time of that invocation.  Read in the claim's favour: only invocations
   during which every read of the setting returned the same value count. *)
C8_Original ==
  \A t \in Threads :
    (/\ Transition(t) /\ pc[t] = "done" /\ PassedCheck(t)
     /\ \A i, j \in DOMAIN NmReads(t) : NmReads(t)[i][3] = NmReads(t)[j][3]) =>
      LET v == (NmReads(t)[1][3] = "TRUE")
      IN  NmSleepCalled(t) = v /\ NmWakeCalled(t) = v

\* what the finished part of an invocation shows about the two network calls
C8_State ==
  \A t \in Threads :
    (Transition(t) /\ PassedCheck(t)) =>
      /\ pc[t] \in {"libsecret", "ls_collections", "ls_lock", "keyring", "nm_pre"} =>
           (NmReads(t) = <<>> /\ ~NmSleepCalled(t) /\ ~NmWakeCalled(t))
      /\ pc[t] \in {"emit_sleep", "recheck", "proxy_new", "call", "reply",
                    "emit_resume", "nm_post"} =>
           /\ Len(NmReads(t)) = 1
           /\ NmSleepCalled(t) = (NmReads(t)[1][3] = "TRUE")
           /\ ~NmWakeCalled(t)
      /\ pc[t] = "done" =>
           /\ NmSleepCalled(t) = (NmReads(t)[1][3] = "TRUE")
           /\ IF ConnectFailed(t)
              THEN Len(NmReads(t)) = 1 /\ ~NmWakeCalled(t)
              ELSE Len(NmReads(t)) = 2 /\ NmWakeCalled(t) = (NmReads(t)[2][3] = "TRUE")

\* every read of the network-sleep key returns the value the setting has at
\* that moment, whatever it was before
C8_Reads ==
  \A t \in Threads :
    Len(NmReads(t)') = Len(NmReads(t)) + 1 =>
      NmReads(t)'[Len(NmReads(t)')][3] = Bool(settings[NETWORKMANAGER_SLEEP])

(* C8 as amended: in every suspend()/hibernate() that passes the initial
   availability check, gpm_networkmanager_sleep is called if and only if the
   network-sleep setting is true when the invocation reads it before the
   sleep broadcast; gpm_networkmanager_wake is called if and only if the
   invocation does not stop at a failed login-manager connection and the
   setting is true when it is read again after the resume broadcast.  The
   value the setting had during earlier invocations has no influence. *)
C8_NetworkGating == []C8_State /\ [][C8_Reads]_vars

\* the previous invocation quiesced the network, the setting was switched
\* off, and this invocation ran to its end without either network call
C8_Witness ==
  /\ Transition(MainThread) /\ pc[MainThread] = "done" /\ PassedCheck(MainThread)
  /\ prev_nm[MainThread] = "TRUE"
  /\ Len(NmReads(MainThread)) = 2
  /\ ~NmSleepCalled(MainThread) /\ ~NmWakeCalled(MainThread)

(* C9 as claimed: for every compiled-in credential back-end the lock step of
   suspend() is attempted if and only if lock-keyring-on-suspend is true, and
   the lock step of hibernate() if and only if lock-keyring-on-hibernate is
   true, independently of lock-keyring-on-suspend. *)
C9_Original ==
  [][\A t \in Threads :
       /\ (op[t] = "suspend" /\ pc[t] = "libsecret" /\ pc'[t] # "libsecret") =>
            (Has(t, "secret_service_get_sync", "")' <=> settings[LOCK_KEYRING_SUSPEND])
       /\ (op[t] = "suspend" /\ pc[t] = "keyring" /\ pc'[t] # "keyring") =>
            (Has(t, "gnome_keyring_lock_all_sync", "")' <=> settings[LOCK_KEYRING_SUSPEND])
       /\ (op[t] = "hibernate" /\ pc[t] = "libsecret" /\ pc'[t] # "libsecret") =>
            (Has(t, "secret_service_get_sync", "")' <=> settings[LOCK_KEYRING_HIBERNATE])
       /\ (op[t] = "hibernate" /\ pc[t] = "keyring" /\ pc'[t] # "keyring") =>
            (Has(t, "gnome_keyring_lock_all_sync", "")' <=> settings[LOCK_KEYRING_HIBERNATE])
    ]_vars

\* at most one live instance, and the static pointer names it
C10_State ==
  /\ Cardinality(alive) <= 1
  /\ gpm_control_object = 0 <=> alive = {}
  /\ gpm_control_object # 0 => alive = {gpm_control_object}
  /\ \A i \in Instances : i \in alive <=> refcount[i] > 0
  /\ \A h \in Holders : holds[h] # 0 => holds[h] \in alive

\* what a construction request and a release do
C10_Step ==
  /\ \A h \in Holders :
       (holds[h] = 0 /\ holds'[h] # 0) =>
         IF gpm_control_object # 0
         THEN /\ holds'[h] = gpm_control_object
              /\ refcount'[gpm_control_object] = refcount[gpm_control_object] + 1
              /\ alive' = alive
              /\ gpm_control_object' = gpm_control_object
         ELSE /\ holds'[h] \notin 1..created
              /\ alive' = {holds'[h]}
              /\ refcount'[holds'[h]] = 1
              /\ gpm_control_object' = holds'[h]
  /\ \A i \in alive \ alive' : refcount[i] = 1 /\ gpm_control_object' = 0
  /\ \A h \in Holders :
       (holds[h] # 0 /\ holds'[h] = 0) =>
         IF refcount[holds[h]] > 1
         THEN alive' = alive /\ gpm_control_object' = gpm_control_object
         ELSE alive' = {} /\ gpm_control_object' = 0

(* C10: over any sequence of gpm_control_new() calls and reference releases
   at most one instance is live; a construction request while one is live
   returns that instance with its reference count incremented; the instance
   is destroyed only when its last reference is released, gpm_control_object
   is then NULL, and the next construction request allocates a fresh one. *)
C10_Singleton == []C10_State /\ [][C10_Step]_vars

\* a second instance was allocated after the first was destroyed, and it is
\* shared by two holders
C10_Witness ==
  /\ created = 2 /\ alive = {2} /\ gpm_control_object = 2
  /\ refcount[2] = 2
  /\ refcount[1] = 0

----------------------------------------------------------------------------
(* C11: when the login-manager connection cannot be established after the
   "sleep" signal was emitted, suspend()/hibernate() returns failure, emits no
   "resume" signal, does not issue Suspend/Hibernate and does not call
   gpm_networkmanager_wake, even if gpm_networkmanager_sleep was called. *)
C11_ConnectFailureNoResume ==
  \A t \in Threads :
    (Transition(t) /\ ConnectFailed(t)) =>
      /\ pc[t] = "done"
      /\ ret[t] = FALSE
      /\ SleepEmitted(t)
      /\ ~ResumeEmitted(t)
      /\ ~CallIssued(t)
      /\ ~NmWakeCalled(t)

C11_Witness ==
  /\ Transition(MainThread) /\ ConnectFailed(MainThread)
  /\ NmSleepCalled(MainThread)
  /\ settings[NETWORKMANAGER_SLEEP]

(* C12 as claimed: when the login manager was available at the initial check
   but is unavailable at the re-check made just before the privileged call,
   suspend()/hibernate() returns failure without emitting "resume". *)
C12_Original ==
  \A t \in Threads :
    (Transition(t) /\ pc[t] = "done" /\ PassedCheck(t) /\ RecheckFailed(t)) =>
      ret[t] = FALSE /\ ~ResumeEmitted(t)

\* a total order on the steps of one invocation; the reads of settings and
\* the availability probes are not steps of their own
Rank(e) ==
  CASE e[1] = "secret_service_get_sync" -> 1
    [] e[1] = "secret_service_get_collections" -> 2
    [] e[1] = "secret_service_lock_sync" -> 3
    [] e[1] = "gnome_keyring_lock_all_sync" -> 4
    [] e[1] = "gpm_networkmanager_sleep" -> 5
    [] e[1] = "g_signal_emit" /\ e[2] = "sleep" -> 6
    [] e[1] = "g_dbus_proxy_new_for_bus_sync" -> 7
    [] e[1] = "g_dbus_proxy_call_sync" -> 8
    [] e[1] = "reply" -> 9
    [] e[1] = "g_object_unref" -> 10
    [] e[1] = "g_signal_emit" /\ e[2] = "resume" -> 11
    [] e[1] = "gpm_networkmanager_wake" -> 12
    [] OTHER -> 0

(* C13: the steps one suspend()/hibernate() invocation executes occur in the
   order credential lock, network pre-sleep, "sleep" broadcast, availability
   re-check and privileged call, "resume" broadcast, network post-wake; a
   skipped step does not reorder the others.  The re-check, when made, lies
   between the "sleep" broadcast and the connection. *)
C13_FixedOrder ==
  \A t \in Threads :
    Transition(t) =>
      /\ \A i, j \in DOMAIN log[t] :
           (i < j /\ Rank(log[t][i]) > 0 /\ Rank(log[t][j]) > 0) =>
             Rank(log[t][i]) < Rank(log[t][j])
      /\ \A i \in DOMAIN log[t] :
           log[t][i][1] = "LOGIND_RUNNING" =>
             \/ i = 1
             \/ /\ \A j \in 1..(i - 1) : Rank(log[t][j]) <= 6
                /\ \A j \in (i + 1)..Len(log[t]) : Rank(log[t][j]) = 0 \/ Rank(log[t][j]) >= 7
                /\ log[t][i - 1] = <<"g_signal_emit", "sleep",
                                     IF op[t] = "suspend" THEN ACTION_SUSPEND ELSE ACTION_HIBERNATE>>

\* an invocation in which every step was executed
C13_Witness ==
  /\ op[MainThread] = "suspend" /\ pc[MainThread] = "done"
  /\ \A r \in 1..12 : \E i \in DOMAIN log[MainThread] : Rank(log[MainThread][i]) = r

(* C14 as claimed: in every suspend()/hibernate() that reaches the post-resume
   step, gpm_networkmanager_wake is called if and only if
   gpm_networkmanager_sleep was called earlier in the same invocation, even
   when the setting changes in between. *)
C14_Original ==
  \A t \in Threads :
    (Transition(t) /\ pc[t] = "done" /\ ResumeEmitted(t)) =>
      NmWakeCalled(t) = NmSleepCalled(t)

\* the calls that leave the process
RemoteCalls ==
  {"secret_service_get_sync", "secret_service_lock_sync", "gnome_keyring_lock_all_sync",
   "gpm_networkmanager_sleep", "gpm_networkmanager_wake",
   "g_dbus_proxy_new_for_bus_sync", "g_dbus_proxy_call_sync"}

(* C15: in one invocation of shutdown(), suspend() or hibernate() each remote
   call is made at most once, whatever the outcome of any call. *)
C15_NoRetry ==
  \A t \in Threads :
    \A i, j \in DOMAIN log[t] :
      (log[t][i][1] \in RemoteCalls /\ log[t][i][1] = log[t][j][1]) => i = j

\* every fallible call of one invocation failed, and the invocation ended
C15_Witness ==
  /\ op[MainThread] = "suspend" /\ pc[MainThread] = "done"
  /\ HasRes(MainThread, "secret_service_lock_sync", "", "error")
  /\ HasRes(MainThread, "gnome_keyring_lock_all_sync", "", "other")
  /\ NmSleepCalled(MainThread)
  /\ ConnectFailed(MainThread)

Kind(t) == IF op[t] = "suspend" THEN ACTION_SUSPEND ELSE ACTION_HIBERNATE

(* C16: every signal emitted by suspend() carries GPM_CONTROL_ACTION_SUSPEND
   and every signal emitted by hibernate() GPM_CONTROL_ACTION_HIBERNATE; one
   invocation emits at most one "sleep" and at most one "resume", and a
   "resume" is preceded in that invocation by a "sleep" of the same kind. *)
C16_SignalKinds ==
  \A t \in Threads :
    Transition(t) =>
      /\ \A i \in DOMAIN log[t] :
           log[t][i][1] = "g_signal_emit" =>
             /\ log[t][i][2] \in {"sleep", "resume"}
             /\ log[t][i][3] = Kind(t)
             /\ \A j \in DOMAIN log[t] :
                  (log[t][j][1] = "g_signal_emit" /\ log[t][j][2] = log[t][i][2]) => i = j
      /\ ResumeEmitted(t) =>
           /\ SleepEmitted(t)
           /\ Pos(t, "g_signal_emit", "sleep") < Pos(t, "g_signal_emit", "resume")
           /\ log[t][Pos(t, "g_signal_emit", "sleep")][3] =
                log[t][Pos(t, "g_signal_emit", "resume")][3]

C16_Witness ==
  /\ op[MainThread] = "hibernate" /\ pc[MainThread] = "done"
  /\ SleepEmitted(MainThread) /\ ResumeEmitted(MainThread)

----------------------------------------------------------------------------
(* Two threads invoke hibernate() on the one instance, their steps
   interleaved in any order; the function takes no lock. *)
NextConc == \E t \in Threads : HibernateStep(t)

SpecConc == Init /\ [][NextConc]_vars

(* C17: the controller has no mutual exclusion between overlapping
   transitions: a thread that is not inside an operation can always enter
   suspend() or hibernate(), and a thread inside one can always take its next
   step, whatever the other thread is doing -- no call is rejected or made to
   wait.  (That both have emitted "sleep" before either emitted "resume" is
   the reachable state C17_Witness.) *)
C17_NoMutualExclusion ==
  \A t \in Threads :
    /\ pc[t] \in {"idle", "done"} =>
         (ENABLED SuspendEnter(t)) /\ (ENABLED HibernateEnter(t))
    /\ pc[t] \notin {"idle", "done"} => ENABLED HibernateStep(t)

\* both hibernate() calls have emitted "sleep" and wait for the reply to
\* Hibernate; neither has emitted "resume"
C17_Witness ==
  \A t \in Threads :
    /\ op[t] = "hibernate" /\ pc[t] = "reply"
    /\ SleepEmitted(t) /\ ~ResumeEmitted(t)
    /\ CallIssued(t)

----------------------------------------------------------------------------
(* The running operation of thread t takes its next step.  Every step is a
   library call that returns, so a thread inside an operation keeps going. *)
Progress(t) ==
  /\ pc[t] \notin {"idle", "done"}
  /\ (ShutdownStep(t) \/ SuspendStep(t) \/ HibernateStep(t))

SpecLive == Init /\ [][Next]_vars /\ WF_vars(Progress(MainThread))

(* C18: provided every blocking call returns, every invocation of
   shutdown(), suspend() or hibernate() eventually returns: no loop and no
   wait keeps it inside the operation, and it returns either from the
   availability check, from the login-manager connection step, or after its
   last step. *)
C18_Terminates ==
  /\ \A t \in Threads : (pc[t] \notin {"idle", "done"}) ~> (pc[t] = "done")
  /\ [](\A t \in Threads :
          (pc[t] = "done" /\ op[t] # "none") =>
            \/ Unavailable(t)
            \/ ConnectFailed(t)
            \/ Transition(t) /\ ResumeEmitted(t) /\ Len(NmReads(t)) = 2
            \/ op[t] = "shutdown" /\ Has(t, "reply", "PowerOff"))

\* an invocation that stopped at the login-manager connection step, and one
\* cannot stop anywhere else than the ends named by the claim
C18_Witness ==
  /\ Transition(MainThread) /\ pc[MainThread] = "done"
  /\ ConnectFailed(MainThread)
  /\ ~ENABLED Progress(MainThread)

----------------------------------------------------------------------------
\* the values read from the two keyring-lock keys, in order
LockReads(t) ==
  SelectSeq(log[t], LAMBDA e : e[1] = "g_settings_get_boolean"
                               /\ e[2] \in {LOCK_KEYRING_SUSPEND, LOCK_KEYRING_HIBERNATE})

PastLibsecret(t) ==
  pc[t] \in {"keyring", "nm_pre", "emit_sleep", "recheck", "proxy_new", "call",
             "reply", "emit_resume", "nm_post", "done"}

PastNmPre(t) ==
  pc[t] \in {"emit_sleep", "recheck", "proxy_new", "call", "reply",
             "emit_resume", "nm_post", "done"}

(* C19: the sub-steps of the secret-service lock run in the order connect,
   enumerate collections, lock; the lock request is issued if and only if the
   connect succeeded and the enumeration was not empty; a failure at a
   sub-step skips the rest of that back-end only: the keyring back-end, when
   compiled in, is still consulted and the transition goes on to the network
   step. *)
C19_SecretServiceSubSteps ==
  \A t \in Threads :
    (Transition(t) /\ PassedCheck(t) /\ WITH_LIBSECRET \in build) =>
      LET connect == Pos(t, "secret_service_get_sync", "")
          enum == Pos(t, "secret_service_get_collections", "")
          lock == Pos(t, "secret_service_lock_sync", "")
          connected == HasRes(t, "secret_service_get_sync", "", "ok")
          some == HasRes(t, "secret_service_get_collections", "", "some")
      IN  /\ enum > 0 => (connected /\ connect < enum)
          /\ lock > 0 => (connected /\ some /\ enum < lock)
          /\ PastLibsecret(t) =>
               /\ (connect > 0) = (LockReads(t)[1][3] = "TRUE")
               /\ (enum > 0) = connected
               /\ (lock > 0) = (connected /\ some)
          /\ (PastLibsecret(t) /\ pc[t] # "keyring" /\ WITH_KEYRING \in build) =>
               /\ Len(LockReads(t)) = 2
               /\ Has(t, "gnome_keyring_lock_all_sync", "") = (LockReads(t)[2][3] = "TRUE")
          /\ PastNmPre(t) => Len(NmReads(t)) >= 1

\* the connect succeeded, the enumeration was empty, no lock request was
\* made, and the keyring back-end and the network step still ran
C19_Witness ==
  /\ Transition(MainThread) /\ pc[MainThread] = "done"
  /\ HasRes(MainThread, "secret_service_get_sync", "", "ok")
  /\ HasRes(MainThread, "secret_service_get_collections", "", "NULL")
  /\ ~Has(MainThread, "secret_service_lock_sync", "")
  /\ Has(MainThread, "gnome_keyring_lock_all_sync", "")
  /\ NmSleepCalled(MainThread)

(* C20: suspend()/hibernate() returns success if and only if the
   login-manager connection was established and Suspend/Hibernate was issued
   on it in that invocation; every success has emitted both "sleep" and
   "resume", and every path without the call returns failure. *)
C20_SuccessIffCallIssued ==
  \A t \in Threads :
    Transition(t) =>
      /\ ret[t] = TRUE => (Connected(t) /\ CallIssued(t))
      /\ pc[t] = "done" =>
           /\ ret[t] = (Connected(t) /\ CallIssued(t))
           /\ ret[t] = TRUE => (SleepEmitted(t) /\ ResumeEmitted(t))
           /\ ~CallIssued(t) => ret[t] = FALSE

\* a failure on the path that emits "resume" without any call (the
\* re-check found the login manager gone), next to which success is defined
C20_Witness ==
  /\ Transition(MainThread) /\ pc[MainThread] = "done"
  /\ RecheckFailed(MainThread) /\ ResumeEmitted(MainThread)
  /\ ret[MainThread] = FALSE

----------------------------------------------------------------------------
(* C21: every login-manager connection that shutdown(), suspend() or
   hibernate() establishes is released before the operation returns, so no
   connection is held while no operation is in progress on that thread.
   gpm_control_suspend releases it (g_object_unref(proxy));
   gpm_control_hibernate and gpm_control_systemd_shutdown return with the
   proxy still referenced, after a reply and after a remote error alike. *)
C21_Original ==
  \A t \in Threads :
    pc[t] \in {"idle", "done"} => proxy[t] # "held"

(* C22: whenever suspend() or hibernate() returns success the caller's GError
   is unset.  secret_service_get_sync and secret_service_lock_sync are handed
   the caller's `error`, nothing clears it, and the return value depends on
   the logind call only: a failed credential lock leaves the error set on an
   invocation that returns TRUE. *)
C22_Original ==
  \A t \in Threads :
    (Transition(t) /\ pc[t] = "done" /\ ret[t] = TRUE) => ~error[t]

====
